---- MODULE Spec2Model ----
(***************************************************************************)
(* Model of sim/resources/stompypro/joints.py: the Node class hierarchy    *)
(* (children, joints, joints_motors, all_joints, __str__), the Robot class *)
(* with its table accessors, and print_joints.                             *)
(*                                                                         *)
(* A Python class is modelled by its body: the sequence of its attribute   *)
(* bindings in definition order.  A joint list or a dict returned by a     *)
(* call is an object of a heap, so that aliasing and in-place mutation are  *)
(* visible.  A rendered string is the sequence of its lines.               *)
(***************************************************************************)
EXTENDS Integers, Sequences, FiniteSets, TLC

VARIABLES
  classes,   \* class name -> class body (the module's class definitions)
  signsLit,  \* the dict display of Robot.isaac_to_mujoco_signs
  standLit,  \* the dict display of Robot.default_standing
  loaded,    \* the module has been executed (the classes exist)
  heap,      \* list and dict objects a caller still holds, oldest first
  ret,       \* what the call made by the last step returned (or raised)
  pc,        \* print_joints: position in the function body
  joints,    \* print_joints: the local variable joints
  stdout,    \* print_joints: what has been printed, in order
  err        \* print_joints: the exception that left the function

vars == <<classes, signsLit, standLit, loaded, heap, ret, pc, joints, stdout, err>>

----------------------------------------------------------------------------
(* Bounds of the model. *)

\* Objects a caller keeps referenced at a time.
MaxHeld == 1
\* Joints in the body of one generated leg class.
MaxJoints == 2
\* Disabled arm entries a generated dict display has enabled.
MaxExtraKeys == 1

----------------------------------------------------------------------------
(* Attribute names and their ordering (dir() returns names sorted). *)

\* The code points of every attribute name of the module: str comparison is
\* by code point.
CodePoints ==
  ("__doc__" :> <<95, 95, 100, 111, 99, 95, 95>>) @@
  ("__module__" :> <<95, 95, 109, 111, 100, 117, 108, 101, 95, 95>>) @@
  ("__str__" :> <<95, 95, 115, 116, 114, 95, 95>>) @@
  ("_abc_impl" :> <<95, 97, 98, 99, 95, 105, 109, 112, 108>>) @@
  ("all_joints" :> <<97, 108, 108, 95, 106, 111, 105, 110, 116, 115>>) @@
  ("ankle_pitch" :> <<97, 110, 107, 108, 101, 95, 112, 105, 116, 99, 104>>) @@
  ("arms" :> <<97, 114, 109, 115>>) @@
  ("children" :> <<99, 104, 105, 108, 100, 114, 101, 110>>) @@
  ("damping" :> <<100, 97, 109, 112, 105, 110, 103>>) @@
  ("default_limits" :> <<100, 101, 102, 97, 117, 108, 116, 95, 108, 105, 109, 105, 116, 115>>) @@
  ("default_positions" :> <<100, 101, 102, 97, 117, 108, 116, 95, 112, 111, 115, 105, 116, 105, 111, 110, 115>>) @@
  ("default_standing" :> <<100, 101, 102, 97, 117, 108, 116, 95, 115, 116, 97, 110, 100, 105, 110, 103>>) @@
  ("effort" :> <<101, 102, 102, 111, 114, 116>>) @@
  ("elbow_pitch" :> <<101, 108, 98, 111, 119, 95, 112, 105, 116, 99, 104>>) @@
  ("friction" :> <<102, 114, 105, 99, 116, 105, 111, 110>>) @@
  ("height" :> <<104, 101, 105, 103, 104, 116>>) @@
  ("hip_pitch" :> <<104, 105, 112, 95, 112, 105, 116, 99, 104>>) @@
  ("hip_roll" :> <<104, 105, 112, 95, 114, 111, 108, 108>>) @@
  ("hip_yaw" :> <<104, 105, 112, 95, 121, 97, 119>>) @@
  ("isaac_to_mujoco_signs" :> <<105, 115, 97, 97, 99, 95, 116, 111, 95, 109, 117, 106, 111, 99, 111, 95, 115, 105, 103, 110, 115>>) @@
  ("joints" :> <<106, 111, 105, 110, 116, 115>>) @@
  ("joints_motors" :> <<106, 111, 105, 110, 116, 115, 95, 109, 111, 116, 111, 114, 115>>) @@
  ("knee_pitch" :> <<107, 110, 101, 101, 95, 112, 105, 116, 99, 104>>) @@
  ("left" :> <<108, 101, 102, 116>>) @@
  ("legs" :> <<108, 101, 103, 115>>) @@
  ("right" :> <<114, 105, 103, 104, 116>>) @@
  ("rotation" :> <<114, 111, 116, 97, 116, 105, 111, 110>>) @@
  ("shoulder_pitch" :> <<115, 104, 111, 117, 108, 100, 101, 114, 95, 112, 105, 116, 99, 104>>) @@
  ("shoulder_roll" :> <<115, 104, 111, 117, 108, 100, 101, 114, 95, 114, 111, 108, 108>>) @@
  ("shoulder_yaw" :> <<115, 104, 111, 117, 108, 100, 101, 114, 95, 121, 97, 119>>) @@
  ("stiffness" :> <<115, 116, 105, 102, 102, 110, 101, 115, 115>>) @@
  ("velocity" :> <<118, 101, 108, 111, 99, 105, 116, 121>>)

Chars(l) == CodePoints[l]

\* s < t for two strings given by their code points.
RECURSIVE LexLess(_, _)
LexLess(s, t) ==
  IF t = <<>> THEN FALSE
  ELSE IF s = <<>> THEN TRUE
  ELSE IF s[1] # t[1] THEN s[1] < t[1]
  ELSE LexLess(Tail(s), Tail(t))

\* The names of S in increasing order.
RECURSIVE SortNames(_)
SortNames(S) ==
  IF S = {} THEN <<>>
  ELSE LET x == CHOOSE a \in S : TRUE
           rest == SortNames(S \ {x})
           k == Cardinality({i \in DOMAIN rest : LexLess(Chars(rest[i]), Chars(x))})
       IN SubSeq(rest, 1, k) \o <<x>> \o SubSeq(rest, k + 1, Len(rest))

\* Every attribute name, sorted once.
SortedNames == SortNames(DOMAIN CodePoints)

\* sorted(S) for a set S of attribute names.
Sorted(S) == SelectSeq(SortedNames, LAMBDA l : l \in S)

\* attr.startswith("__")
StartsWithDunder(l) ==
  LET c == Chars(l) IN Len(c) >= 2 /\ c[1] = 95 /\ c[2] = 95

----------------------------------------------------------------------------
(* The class definitions of the module. *)

StrAttr(l, name) == [label |-> l, kind |-> "str", v |-> name]
NodeAttr(l, cls) == [label |-> l, kind |-> "node", v |-> cls]
OtherAttr(l) == [label |-> l, kind |-> "other", v |-> ""]

\* What every class statement binds besides its own body.
ModuleAttr == StrAttr("__module__", "sim.resources.stompypro.joints")
ClassTail == <<OtherAttr("__doc__"), OtherAttr("_abc_impl")>>

ClassBody(attrs) == <<ModuleAttr>> \o attrs \o ClassTail

NodeClass ==
  ClassBody(<<OtherAttr("children"), OtherAttr("joints"),
              OtherAttr("joints_motors"), OtherAttr("all_joints"),
              OtherAttr("__str__")>>)

\* The bodies of LeftLeg and RightLeg, in the order written.
LeftLegBody ==
  <<StrAttr("hip_pitch", "L_hip_y"), StrAttr("hip_yaw", "L_hip_x"),
    StrAttr("hip_roll", "L_hip_z"), StrAttr("knee_pitch", "L_knee"),
    StrAttr("ankle_pitch", "L_ankle_y")>>

RightLegBody ==
  <<StrAttr("hip_pitch", "R_hip_y"), StrAttr("hip_yaw", "R_hip_x"),
    StrAttr("hip_roll", "R_hip_z"), StrAttr("knee_pitch", "R_knee"),
    StrAttr("ankle_pitch", "R_ankle_y")>>

LeftLegClass == ClassBody(LeftLegBody)

RightLegClass == ClassBody(RightLegBody)

LeftArmClass ==
  ClassBody(<<StrAttr("shoulder_pitch", "L_shoulder_y"),
              StrAttr("shoulder_roll", "L_shoulder_z"),
              StrAttr("shoulder_yaw", "L_shoulder_x"),
              StrAttr("elbow_pitch", "L_elbow_x")>>)

RightArmClass ==
  ClassBody(<<StrAttr("shoulder_pitch", "R_shoulder_y"),
              StrAttr("shoulder_roll", "R_shoulder_z"),
              StrAttr("shoulder_yaw", "R_shoulder_x"),
              StrAttr("elbow_pitch", "R_elbow_x")>>)

LegsClass == ClassBody(<<NodeAttr("left", "LeftLeg"), NodeAttr("right", "RightLeg")>>)

ArmsClass == ClassBody(<<NodeAttr("left", "LeftArm"), NodeAttr("right", "RightArm")>>)

\* height, rotation and the methods of Robot: neither str nor Node.
RobotRest ==
  <<OtherAttr("height"), OtherAttr("rotation"),
    OtherAttr("isaac_to_mujoco_signs"), OtherAttr("default_positions"),
    OtherAttr("default_standing"), OtherAttr("default_limits"),
    OtherAttr("stiffness"), OtherAttr("damping"), OtherAttr("effort"),
    OtherAttr("velocity"), OtherAttr("friction")>>

RobotClass == ClassBody(<<NodeAttr("legs", "Legs")>> \o RobotRest)

ClassNames ==
  {"Node", "LeftLeg", "RightLeg", "LeftArm", "RightArm", "Legs", "Arms", "Robot"}

\* The module as written.
SourceClasses ==
  [c \in ClassNames |->
     CASE c = "Node" -> NodeClass
       [] c = "LeftLeg" -> LeftLegClass
       [] c = "RightLeg" -> RightLegClass
       [] c = "LeftArm" -> LeftArmClass
       [] c = "RightArm" -> RightArmClass
       [] c = "Legs" -> LegsClass
       [] c = "Arms" -> ArmsClass
       [] c = "Robot" -> RobotClass]

----------------------------------------------------------------------------
(* Attribute lookup. *)

Labels(body) == {body[i].label : i \in DOMAIN body}

Binding(body, l) == body[CHOOSE i \in DOMAIN body : body[i].label = l]

Missing(l) == [label |-> l, kind |-> "missing", v |-> ""]

\* getattr(cls, l): the class's own binding, else the one inherited from Node.
GetAttr(cls, l) ==
  IF l \in Labels(classes[cls]) THEN Binding(classes[cls], l)
  ELSE IF l \in Labels(classes["Node"]) THEN Binding(classes["Node"], l)
  ELSE Missing(l)

\* dir(cls): the names bound in the class and in its bases, sorted.  The names
\* object adds all start with "__" and are filtered by every caller.
Dir(cls) == Sorted(Labels(classes[cls]) \cup Labels(classes["Node"]))

\* As PublicAttrs, without the filter on the attribute name.
PublicAttrsUnfiltered(cls) ==
  LET names == Dir(cls)
  IN [i \in 1..Len(names) |-> GetAttr(cls, names[i])]

\* (getattr(cls, attr) for attr in dir(cls) if not attr.startswith("__"))
PublicAttrs(cls) ==
  LET names == SelectSeq(Dir(cls), LAMBDA l : ~StartsWithDunder(l))
  IN [i \in 1..Len(names) |-> GetAttr(cls, names[i])]

Value(a) == [kind |-> a.kind, v |-> a.v]

\* The list built by Node.children: the values that are a Node or a str.
ChildrenList(cls) ==
  LET attrs == SelectSeq(PublicAttrs(cls), LAMBDA a : a.kind \in {"node", "str"})
  IN [i \in 1..Len(attrs) |-> Value(attrs[i])]

\* The list built by Node.joints: the values that are a str.
JointsList(cls) ==
  LET attrs == SelectSeq(PublicAttrs(cls), LAMBDA a : a.kind = "str")
  IN [i \in 1..Len(attrs) |-> attrs[i].v]

\* The list built by Node.joints_motors: (attribute name, value) for each str.
JointsMotorsList(cls) ==
  LET attrs == SelectSeq(PublicAttrs(cls), LAMBDA a : a.kind = "str")
  IN [i \in 1..Len(attrs) |-> <<attrs[i].label, attrs[i].v>>]

----------------------------------------------------------------------------
(* The heap: every call of a query builds a new list (or dict) object.  An *)
(* object is the expression that built it (key), its content (val) and,    *)
(* once a call has returned it to the caller, that call (by).              *)

Object(key, content) == [key |-> key, val |-> content, by |-> <<"", "">>]

Result(h, ref) == [h |-> h, ref |-> ref]

\* As NewObject, but handing out again the object an earlier evaluation of
\* the same expression built, when it is still there.
ReusedObject(h, key, content) ==
  IF \E i \in DOMAIN h : h[i].key = key
  THEN Result(h, CHOOSE i \in DOMAIN h : h[i].key = key)
  ELSE Result(Append(h, Object(key, content)), Len(h) + 1)

\* A list comprehension, a list() or a dict display evaluates to a new object.
NewObject(h, key, content) ==
  Result(Append(h, Object(key, content)), Len(h) + 1)

\* list.extend: in place, on the object itself.
Extend(h, ref, items) == [h EXCEPT ![ref].val = @ \o items]

Children(h, cls) == NewObject(h, <<"children", cls>>, ChildrenList(cls))

\* As Joints, with the list of a class built once and returned by every call.
JointsMemoized(h, cls) == ReusedObject(h, <<"joints", cls>>, JointsList(cls))

Joints(h, cls) == NewObject(h, <<"joints", cls>>, JointsList(cls))

JointsMotors(h, cls) == NewObject(h, <<"joints_motors", cls>>, JointsMotorsList(cls))

RECURSIVE AllJoints(_, _)
RECURSIVE ExtendWithChildren(_, _, _, _)
RECURSIVE ExtendWithChildJoints(_, _, _, _)

\* As ExtendWithChildren, extending with child.joints(): one level only.
ExtendWithChildJoints(h, leaves, kids, i) ==
  IF i > Len(kids) THEN Result(h, leaves)
  ELSE IF kids[i].kind = "node"
       THEN LET sub == Joints(h, kids[i].v)
            IN ExtendWithChildJoints(Extend(sub.h, leaves, sub.h[sub.ref].val),
                                     leaves, kids, i + 1)
       ELSE ExtendWithChildJoints(h, leaves, kids, i + 1)

\* The loop of Node.all_joints over cls.children(), from its i-th element on.
ExtendWithChildren(h, leaves, kids, i) ==
  IF i > Len(kids) THEN Result(h, leaves)
  ELSE IF kids[i].kind = "node"
       THEN LET sub == AllJoints(h, kids[i].v)
            IN ExtendWithChildren(Extend(sub.h, leaves, sub.h[sub.ref].val),
                                  leaves, kids, i + 1)
       ELSE ExtendWithChildren(h, leaves, kids, i + 1)

\* Node.all_joints: leaves = cls.joints(), extended in place with
\* child.all_joints() for every child that is a Node.
AllJoints(h, cls) ==
  LET leaves == Joints(h, cls)
      kids == Children(leaves.h, cls)
  IN ExtendWithChildren(kids.h, leaves.ref, kids.h[kids.ref].val, 1)

\* The value a call returns, read at the moment it returns.
Returned(r) == r.h[r.ref].val

----------------------------------------------------------------------------
(* Rendering: a string is the sequence of its lines (split at "\n"); a line *)
(* is its leading spaces and its text, text "" for an empty line.  A group's *)
(* own line "[Name]" is text Name with group TRUE.  Joint names are taken to *)
(* be non-blank and free of line breaks, as every name of the module is.     *)

Line(indent, text, group) == [indent |-> indent, text |-> text, group |-> group]

EmptyLine == Line(0, "", FALSE)

\* len("  "), the prefix textwrap.indent is given.
IndentWidth == 2

\* textwrap.indent(text, "  "): the prefix goes before every line that does
\* not consist solely of whitespace.
Indent(text) ==
  [i \in 1..Len(text) |->
     IF text[i].text = "" /\ ~text[i].group THEN text[i]
     ELSE [text[i] EXCEPT !.indent = @ + IndentWidth]]

RECURSIVE JoinLines(_)
\* "\n".join(parts): the lines of the parts, one part after the other; the
\* join of no part is the empty string, which is one empty line.
JoinLines(parts) ==
  IF parts = <<>> THEN <<EmptyLine>>
  ELSE IF Len(parts) = 1 THEN parts[1]
  ELSE parts[1] \o JoinLines(Tail(parts))

RECURSIVE Str(_)
\* Node.__str__, for an instance of cls.
Str(cls) ==
  LET kids == ChildrenList(cls)
      parts == [i \in 1..Len(kids) |->
                  IF kids[i].kind = "node" THEN Str(kids[i].v)
                  ELSE <<Line(0, kids[i].v, FALSE)>>]
      parts_str == Indent(<<EmptyLine>> \o JoinLines(parts))
  IN \* "[Name]" + parts_str: parts_str starts with the line break
     <<Line(0, cls, TRUE)>> \o Tail(parts_str)

----------------------------------------------------------------------------
(* The table accessors of Robot: each returns the value of a dict display. *)
(* A key is an attribute reference (Robot.legs.left.hip_pitch) or a string *)
(* literal; a float value is given in units of 0.0001.                     *)

KeyPath(p) == [kind |-> "path", path |-> p, lit |-> ""]
KeyLit(s) == [kind |-> "lit", path |-> <<>>, lit |-> s]
Item(k, x) == [key |-> k, value |-> x]

LegLabels == <<"hip_pitch", "hip_yaw", "hip_roll", "knee_pitch", "ankle_pitch">>
ArmLabels == <<"shoulder_pitch", "shoulder_roll", "shoulder_yaw", "elbow_pitch">>

LegKey(side, i) == KeyPath(<<"legs", side, LegLabels[i]>>)
ArmKey(side, i) == KeyPath(<<"arms", side, ArmLabels[i]>>)

\* The arm entries the module keeps commented out, in the order written.
DisabledArmItems(x) ==
  [i \in 1..4 |-> Item(ArmKey("left", i), x)] \o
  [i \in 1..4 |-> Item(ArmKey("right", i), x)]

\* As IsaacToMujocoSignsDisplay, with entries for the arms.
IsaacToMujocoSignsWithArms ==
  [i \in 1..5 |-> Item(LegKey("left", i), 1)] \o
  [i \in 1..5 |-> Item(LegKey("right", i), 1)] \o DisabledArmItems(1)

IsaacToMujocoSignsDisplay ==
  [i \in 1..5 |-> Item(LegKey("left", i), 1)] \o
  [i \in 1..5 |-> Item(LegKey("right", i), 1)]

DefaultStandingDisplay ==
  <<Item(LegKey("left", 1), -1570), Item(LegKey("left", 2), 394),
    Item(LegKey("left", 3), 628), Item(LegKey("left", 4), 4410),
    Item(LegKey("left", 5), -2580), Item(LegKey("right", 1), -2200),
    Item(LegKey("right", 2), 260), Item(LegKey("right", 3), 314),
    Item(LegKey("right", 4), 4410), Item(LegKey("right", 5), -2230)>>

StiffnessDisplay ==
  <<Item(KeyLit("hip_y"), 150), Item(KeyLit("hip_x"), 150),
    Item(KeyLit("hip_z"), 100), Item(KeyLit("knee"), 150),
    Item(KeyLit("ankle_y"), 25)>>

DampingDisplay ==
  <<Item(KeyLit("hip_y"), 10), Item(KeyLit("hip_x"), 10),
    Item(KeyLit("hip_z"), 10), Item(KeyLit("knee"), 10),
    Item(KeyLit("ankle_y"), 10)>>

FrictionDisplay ==
  <<Item(KeyLit("hip"), 0), Item(KeyLit("knee"), 0), Item(KeyLit("ankle"), 0)>>

TableNames ==
  {"isaac_to_mujoco_signs", "default_positions", "default_standing",
   "default_limits", "stiffness", "damping", "effort", "velocity", "friction"}

\* The dict display in the body of accessor t (effort repeats the numbers of
\* stiffness, velocity those of damping).
Display(t) ==
  CASE t = "isaac_to_mujoco_signs" -> signsLit
    [] t = "default_standing" -> standLit
    [] t = "stiffness" -> StiffnessDisplay
    [] t = "effort" -> StiffnessDisplay
    [] t = "damping" -> DampingDisplay
    [] t = "velocity" -> DampingDisplay
    [] t = "friction" -> FrictionDisplay
    [] OTHER -> <<>>

RECURSIVE Resolve(_, _)
\* The attribute reference cls.path[1].path[2]...: looked up on the class,
\* then on the instance each attribute holds.
Resolve(cls, path) ==
  LET a == GetAttr(cls, path[1])
  IN IF a.kind = "missing" THEN [exc |-> "AttributeError", v |-> path[1]]
     ELSE IF Len(path) = 1 THEN [exc |-> "none", v |-> a.v]
     ELSE IF a.kind = "node" THEN Resolve(a.v, Tail(path))
     ELSE [exc |-> "AttributeError", v |-> path[2]]

EvalKey(k) ==
  IF k.kind = "lit" THEN [exc |-> "none", v |-> k.lit] ELSE Resolve("Robot", k.path)

\* d[k] = x on a dict kept as the sequence of its items in insertion order.
SetItem(d, k, x) ==
  IF \E i \in DOMAIN d : d[i][1] = k
  THEN [i \in DOMAIN d |-> IF d[i][1] = k THEN <<k, x>> ELSE d[i]]
  ELSE Append(d, <<k, x>>)

RECURSIVE EvalDisplay(_, _)
\* Evaluates the items of a display left to right into d; the first key that
\* cannot be evaluated raises.
EvalDisplay(d, items) ==
  IF items = <<>> THEN [exc |-> "none", v |-> "", val |-> d]
  ELSE LET k == EvalKey(items[1].key)
       IN IF k.exc # "none" THEN [exc |-> k.exc, v |-> k.v, val |-> <<>>]
          ELSE EvalDisplay(SetItem(d, k.v, items[1].value), Tail(items))

DictKeys(d) == {d[i][1] : i \in DOMAIN d}
DictValues(d) == {d[i][2] : i \in DOMAIN d}

----------------------------------------------------------------------------
(* State shared by the specifications. *)

\* ret: the operation called and the class it was called on, the exception
\* raised if any, the value returned, whether the object returned was built
\* by this call (fresh), and whether the caller still held an object returned
\* by an earlier call of the same operation on the same class, with the same
\* content as now returned or not (prior: "none", "same", "changed").
NoRet ==
  [op |-> "none", cls |-> "", exc |-> "none", val |-> <<>>, fresh |-> TRUE,
   prior |-> "none"]
NoErr == [type |-> "none", msg |-> "", args |-> <<>>]

\* The classes of the tree under cls: cls and the classes of its Node children.
RECURSIVE TreeClasses(_)
TreeClasses(cls) ==
  LET kids == ChildrenList(cls)
  IN {cls} \cup UNION {TreeClasses(kids[i].v) : i \in {j \in DOMAIN kids : kids[j].kind = "node"}}

\* After a call the caller holds what it held plus the object returned; every
\* other object the call built is unreferenced.  A caller keeps the MaxHeld
\* most recent objects.
Keep(h, r, call) ==
  LET all == [r.h EXCEPT ![r.ref].by = call]
      held == SubSeq(all, 1, Len(h)) \o
              (IF r.ref > Len(h) THEN <<all[r.ref]>> ELSE <<>>)
  IN IF Len(held) > MaxHeld
     THEN SubSeq(held, Len(held) - MaxHeld + 1, Len(held))
     ELSE held

Frame == UNCHANGED <<classes, signsLit, standLit, loaded, pc, joints, stdout, err>>

Prior(h, call, val) ==
  IF \E i \in DOMAIN h : h[i].by = call /\ h[i].val = val THEN "same"
  ELSE IF \E i \in DOMAIN h : h[i].by = call THEN "changed"
  ELSE "none"

Return(op, cls, r) ==
  /\ ret' = [op |-> op, cls |-> cls, exc |-> "none", val |-> Returned(r),
             fresh |-> r.ref > Len(heap),
             prior |-> Prior(heap, <<op, cls>>, Returned(r))]
  /\ heap' = Keep(heap, r, <<op, cls>>)
  /\ Frame

----------------------------------------------------------------------------
(* Calls of the query operations by code that imported the module. *)

Call_children(cls) == loaded /\ Return("children", cls, Children(heap, cls))

Call_joints(cls) == loaded /\ Return("joints", cls, Joints(heap, cls))

Call_joints_motors(cls) ==
  loaded /\ Return("joints_motors", cls, JointsMotors(heap, cls))

Call_all_joints(cls) == loaded /\ Return("all_joints", cls, AllJoints(heap, cls))

\* str(cls()): a str is immutable, no object of the heap stands for it.
Call_str(cls) ==
  /\ loaded
  /\ ret' = [NoRet EXCEPT !.op = "str", !.cls = cls, !.val = Str(cls)]
  /\ UNCHANGED heap
  /\ Frame

\* Robot.t() for a table accessor t.
Call_table(t) ==
  /\ loaded
  /\ LET e == EvalDisplay(<<>>, Display(t))
     IN IF e.exc = "none"
        THEN Return(t, "Robot", NewObject(heap, <<t, "Robot">>, e.val))
        ELSE /\ ret' = [NoRet EXCEPT !.op = t, !.cls = "Robot", !.exc = e.exc,
                                     !.val = <<e.v>>]
             /\ UNCHANGED heap
             /\ Frame

\* An element a caller may add to an object it was returned.
Intruder(op) ==
  CASE op = "children" -> [kind |-> "str", v |-> "intruder"]
    [] op \in {"joints", "all_joints"} -> "intruder"
    [] op = "joints_motors" -> <<"intruder", "intruder">>
    [] OTHER -> <<"intruder", 0>>

\* A caller appends to the i-th object it holds (list.append, d[k] = x).
Mutate(i) ==
  LET x == Intruder(heap[i].by[1])
  IN /\ i \in DOMAIN heap
     /\ (IF heap[i].val = <<>> THEN TRUE ELSE heap[i].val[Len(heap[i].val)] # x)
     /\ heap' = [heap EXCEPT ![i].val = Append(@, x)]
     /\ ret' = NoRet
     /\ Frame

Init ==
  /\ classes = SourceClasses
  /\ signsLit = IsaacToMujocoSignsDisplay
  /\ standLit = DefaultStandingDisplay
  /\ loaded = TRUE
  /\ heap = <<>>
  /\ ret = NoRet
  /\ pc = "idle"
  /\ joints = <<>>
  /\ stdout = <<>>
  /\ err = NoErr

Next ==
  \/ \E cls \in TreeClasses("Robot") : Call_children(cls)
  \/ \E cls \in TreeClasses("Robot") : Call_joints(cls)
  \/ \E cls \in TreeClasses("Robot") : Call_joints_motors(cls)
  \/ \E cls \in TreeClasses("Robot") : Call_all_joints(cls)
  \/ \E cls \in TreeClasses("Robot") : Call_str(cls)
  \/ \E t \in TableNames : Call_table(t)
  \/ \E i \in 1..MaxHeld : Mutate(i)

Spec == Init /\ [][Next]_vars

----------------------------------------------------------------------------
(* print_joints, statement by statement. *)

Range(q) == {q[i] : i \in DOMAIN q}

\* joints = Robot.all_joints()
PJ_all_joints ==
  /\ loaded /\ pc = "idle"
  /\ joints' = Returned(AllJoints(heap, "Robot"))
  /\ pc' = "assert"
  /\ UNCHANGED <<classes, signsLit, standLit, loaded, heap, ret, stdout, err>>

\* As PJ_assert, with the assertion not evaluated.
PJ_assert_skipped ==
  /\ pc = "assert"
  /\ pc' = "print_tree"
  /\ UNCHANGED <<classes, signsLit, standLit, loaded, heap, ret, joints, stdout, err>>

\* assert len(joints) == len(set(joints)), "Duplicate joint names found!"
PJ_assert ==
  /\ pc = "assert"
  /\ IF Len(joints) = Cardinality(Range(joints))
     THEN pc' = "print_tree" /\ UNCHANGED err
     ELSE /\ pc' = "raised"
          /\ err' = [type |-> "AssertionError", msg |-> "Duplicate joint names found!",
                     args |-> <<>>]
  /\ UNCHANGED <<classes, signsLit, standLit, loaded, heap, ret, joints, stdout>>

\* print(Robot())
PJ_print_tree ==
  /\ pc = "print_tree"
  /\ stdout' = Append(stdout, [kind |-> "str", lines |-> Str("Robot"), n |-> 0])
  /\ pc' = "print_count"
  /\ UNCHANGED <<classes, signsLit, standLit, loaded, heap, ret, joints, err>>

\* print(len(joints))
PJ_print_count ==
  /\ pc = "print_count"
  /\ stdout' = Append(stdout, [kind |-> "int", lines |-> <<>>, n |-> Len(joints)])
  /\ pc' = "done"
  /\ UNCHANGED <<classes, signsLit, standLit, loaded, heap, ret, joints, err>>

----------------------------------------------------------------------------
(* Modules of the same shape as the source: Robot over Legs over LeftLeg   *)
(* and RightLeg, the leg bodies drawn from bounded sets, a joint bound      *)
(* directly in Legs or not, the arms subtree enabled or not.                *)

GenLabels == {"hip_pitch", "knee_pitch", "ankle_pitch"}

\* Class bodies of at most MaxJoints joints with names of the set given, no
\* attribute name bound twice.
GenLegBodies(names) ==
  LET bodies(n) == {b \in [1..n -> {StrAttr(l, x) : l \in GenLabels, x \in names}] :
                      \A i, j \in 1..n : i # j => b[i].label # b[j].label}
  IN UNION {bodies(n) : n \in 0..MaxJoints}

GenDirect == {<<>>, <<StrAttr("hip_yaw", "L_knee")>>}

GenClasses(lb, rb, direct, arms) ==
  [c \in ClassNames |->
     CASE c = "LeftLeg" -> ClassBody(lb)
       [] c = "RightLeg" -> ClassBody(rb)
       [] c = "Legs" -> ClassBody(<<NodeAttr("left", "LeftLeg")>> \o direct \o
                                  <<NodeAttr("right", "RightLeg")>>)
       [] c = "Robot" -> ClassBody(<<NodeAttr("legs", "Legs")>> \o
                                   (IF arms THEN <<NodeAttr("arms", "Arms")>> ELSE <<>>) \o
                                   RobotRest)
       [] OTHER -> SourceClasses[c]]

\* Generated leg bodies without the arms, and the leg bodies of the source
\* with the arms enabled.
GenModules ==
  {GenClasses(lb, rb, direct, FALSE) :
     lb \in GenLegBodies({"L_knee", "L_hip_y"}),
     rb \in GenLegBodies({"R_knee", "L_hip_y"}), direct \in GenDirect} \cup
  {GenClasses(LeftLegBody, RightLegBody, direct, TRUE) : direct \in GenDirect}

InitTrees ==
  /\ classes \in GenModules \cup {SourceClasses}
  /\ signsLit = IsaacToMujocoSignsDisplay
  /\ standLit = DefaultStandingDisplay
  /\ loaded = TRUE
  /\ heap = <<>>
  /\ ret = NoRet
  /\ pc = "idle"
  /\ joints = <<>>
  /\ stdout = <<>>
  /\ err = NoErr

\* A process that imported the module makes one query on a node of the
\* tree, or runs print_joints.
Fresh == ret = NoRet /\ pc = "idle"

QueryJoints == Fresh /\ \E cls \in TreeClasses("Robot") : Call_joints(cls)

QueryAllJoints == Fresh /\ \E cls \in TreeClasses("Robot") : Call_all_joints(cls)

QueryStr == Fresh /\ \E cls \in TreeClasses("Robot") : Call_str(cls)

RunPrintJoints == Fresh /\ PJ_all_joints

NextTrees ==
  \/ QueryJoints
  \/ QueryAllJoints
  \/ QueryStr
  \/ RunPrintJoints
  \/ PJ_assert
  \/ PJ_print_tree
  \/ PJ_print_count

SpecTrees == InitTrees /\ [][NextTrees]_vars

----------------------------------------------------------------------------
(* Building the registry: executing the module, with dict displays that     *)
(* have some of the disabled arm entries enabled, the arms subtree itself   *)
(* enabled (line 93) or not.                                                *)

\* The displays: the one written, then the enabled arm entries.
GenDisplays(display, x) ==
  {display \o SelectSeq(DisabledArmItems(x), LAMBDA it : it \in chosen) :
     chosen \in {c \in SUBSET Range(DisabledArmItems(x)) : Cardinality(c) <= MaxExtraKeys}}

\* import: the class statements run; a method body runs only when called.
ImportModule ==
  /\ ~loaded
  /\ loaded' = TRUE
  /\ err' = NoErr
  /\ UNCHANGED <<classes, signsLit, standLit, heap, ret, pc, joints, stdout>>

InitRegistry ==
  /\ classes \in {SourceClasses, GenClasses(LeftLegBody, RightLegBody, <<>>, TRUE)}
  /\ signsLit \in GenDisplays(IsaacToMujocoSignsDisplay, 1)
  /\ standLit \in GenDisplays(DefaultStandingDisplay, 0)
  /\ loaded = FALSE
  /\ heap = <<>>
  /\ ret = NoRet
  /\ pc = "idle"
  /\ joints = <<>>
  /\ stdout = <<>>
  /\ err = NoErr

NextRegistry ==
  \/ ImportModule
  \/ \E t \in {"isaac_to_mujoco_signs", "default_standing"} : Call_table(t)
  \/ Call_all_joints("Robot")

SpecRegistry == InitRegistry /\ [][NextRegistry]_vars

----------------------------------------------------------------------------
(* The tree a module defines, read off the class bodies: a leaf is a str    *)
(* bound in a class body, a group a Node instance bound in one.             *)

TreeAttrs(cls) ==
  {a \in Range(classes[cls]) : a.kind \in {"str", "node"} /\ ~StartsWithDunder(a.label)}

\* The leaves under cls, each as the attribute names leading to it.
RECURSIVE LeafPaths(_)
LeafPaths(cls) ==
  {<<a.label>> : a \in {b \in TreeAttrs(cls) : b.kind = "str"}} \cup
  UNION {{<<a.label>> \o p : p \in LeafPaths(a.v)} :
           a \in {b \in TreeAttrs(cls) : b.kind = "node"}}

RECURSIVE NameAt(_, _)
NameAt(cls, path) ==
  LET a == Binding(classes[cls], path[1])
  IN IF Len(path) = 1 THEN a.v ELSE NameAt(a.v, Tail(path))

LeafNames(cls) == {NameAt(cls, p) : p \in LeafPaths(cls)}

Count(q, x) == Cardinality({i \in DOMAIN q : q[i] = x})

\* Two distinct leaves of the tree hold the same joint name.
DuplicateLeaves(cls) ==
  \E p, q \in LeafPaths(cls) : p # q /\ NameAt(cls, p) = NameAt(cls, q)

\* The names a list holds more than once.
Repeated(q) == {x \in Range(q) : Count(q, x) > 1}

RECURSIVE Flatten(_)
Flatten(qs) == IF qs = <<>> THEN <<>> ELSE qs[1] \o Flatten(Tail(qs))

\* The depth of every node under cls in rendering order, cls at depth d.
RECURSIVE NodeDepths(_, _)
NodeDepths(cls, d) ==
  LET kids == ChildrenList(cls)
  IN <<d>> \o Flatten([i \in DOMAIN kids |->
                         IF kids[i].kind = "node" THEN NodeDepths(kids[i].v, d + 1)
                         ELSE <<d + 1>>])

\* What a query returns in a process that has made no call yet.
FirstResult(op, cls) ==
  CASE op = "children" -> Returned(Children(<<>>, cls))
    [] op = "joints" -> Returned(Joints(<<>>, cls))
    [] op = "joints_motors" -> Returned(JointsMotors(<<>>, cls))
    [] op = "all_joints" -> Returned(AllJoints(<<>>, cls))
    [] OTHER -> EvalDisplay(<<>>, Display(op)).val

ListOps == {"children", "joints", "joints_motors", "all_joints"}

----------------------------------------------------------------------------
(* The claims. *)

\* C1: the names joints() returns for a node (and hence all_joints()) are in
\* the order in which the node's class body defines them, not in alphabetical
\* order of the attribute names.
C1_DefinitionOrder ==
  ret.op = "joints" =>
    ret.val = LET own == SelectSeq(classes[ret.cls],
                                   LAMBDA a : a.kind = "str" /\ ~StartsWithDunder(a.label))
              IN [i \in DOMAIN own |-> own[i].v]

\* C2: all_joints() of a node is the node's direct joint names followed by the
\* all_joints() of each child group, one entry per leaf of the tree; for the
\* Robot of the source that is 10 names, the 5 of LeftLeg then the 5 of
\* RightLeg, no arm joint and nothing that is not a joint.
C2_AllJointsPreorder ==
  ret.op = "all_joints" =>
    LET kids == SelectSeq(ChildrenList(ret.cls), LAMBDA k : k.kind = "node")
    IN /\ ret.val = JointsList(ret.cls) \o
                    Flatten([i \in DOMAIN kids |-> FirstResult("all_joints", kids[i].v)])
       /\ Len(ret.val) = Cardinality(LeafPaths(ret.cls))
       /\ \A x \in Range(ret.val) \cup LeafNames(ret.cls) :
            Count(ret.val, x) =
              Cardinality({p \in LeafPaths(ret.cls) : NameAt(ret.cls, p) = x})
       /\ (classes = SourceClasses /\ ret.cls = "Robot") =>
            /\ Len(ret.val) = 10
            /\ Range(SubSeq(ret.val, 1, 5)) = {a.v : a \in Range(LeftLegBody)}
            /\ Range(SubSeq(ret.val, 6, 10)) = {a.v : a \in Range(RightLegBody)}

C2_Witness ==
  ret.op = "all_joints" /\ ret.cls = "Robot" /\ classes = SourceClasses

\* C3: the uniqueness check of print_joints passes exactly when no two
\* distinct leaves of the tree hold the same name.
C3_ValidationIffUnique ==
  /\ pc \in {"print_tree", "print_count", "done"} => ~DuplicateLeaves("Robot")
  /\ pc = "raised" => DuplicateLeaves("Robot")

\* The check failed on a name held once under left and once under right, no
\* group holding a name twice.
C3_Witness ==
  /\ pc = "raised"
  /\ \A c \in TreeClasses("Robot") :
       \A a, b \in {x \in TreeAttrs(c) : x.kind = "str"} : a.v = b.v => a = b
  /\ \E p, q \in LeafPaths("Robot") :
       /\ p[2] = "left" /\ q[2] = "right"
       /\ NameAt("Robot", p) = NameAt("Robot", q)

\* C4: print_joints validates before it prints: a failed validation leaves
\* with the error and nothing printed; a passed one is followed by the
\* rendered tree, then the count, which is the length of all_joints().
C4_ValidateThenPrint ==
  /\ stdout # <<>> => Len(joints) = Cardinality(Range(joints))
  /\ pc \in {"idle", "assert", "print_tree"} => stdout = <<>>
  /\ pc = "raised" => stdout = <<>> /\ err.type = "AssertionError"
  /\ pc # "raised" => err = NoErr
  /\ pc = "print_count" =>
       stdout = <<[kind |-> "str", lines |-> Str("Robot"), n |-> 0]>>
  /\ pc = "done" =>
       stdout = <<[kind |-> "str", lines |-> Str("Robot"), n |-> 0],
                  [kind |-> "int", lines |-> <<>>,
                   n |-> Len(FirstResult("all_joints", "Robot"))]>>

C4_Witness == pc = "done" /\ Len(stdout) = 2 /\ stdout[2].n > 0

\* C5: the error raised on a duplicated name identifies that name.
C5_ErrorNamesJoint ==
  pc = "raised" => \E x \in Repeated(joints) : x \in Range(err.args)

\* C6: a registry whose sign map or default standing pose has a key that is
\* not a leaf of its tree fails when built, with DanglingReference; one
\* whose keys are all leaves is built without error.
C6_DanglingFailsAtBuild ==
  LET dangling(k) == LET e == EvalKey(k)
                     IN e.exc # "none" \/ e.v \notin LeafNames("Robot")
  IN loaded =>
       ((\E it \in Range(signsLit) \cup Range(standLit) : dangling(it.key))
          <=> err.type = "DanglingReference")

C9_QueriesPure ==
  /\ classes = SourceClasses
  /\ signsLit = IsaacToMujocoSignsDisplay /\ standLit = DefaultStandingDisplay
  /\ ret.op \in ListOps \cup TableNames =>
       /\ ret.exc = "none"
       /\ ret.fresh
       /\ ret.val = FirstResult(ret.op, ret.cls)

\* A table accessor or joints() was called while the caller held an object,
\* since mutated, that an earlier call of the same operation had returned.
C9_Witness ==
  /\ ret.op \in {"isaac_to_mujoco_signs", "joints"}
  /\ ret.prior = "changed"
  /\ ret.val # <<>>

\* C10: the keys of isaac_to_mujoco_signs() and of default_standing() are
\* each exactly the names of Robot.all_joints(), none of them an arm joint,
\* and every sign is +1 or -1.
C10_TablesMatchTree ==
  LET names == Range(FirstResult("all_joints", "Robot"))
  IN /\ ret.op \in {"isaac_to_mujoco_signs", "default_standing"} =>
          /\ ret.exc = "none"
          /\ DictKeys(ret.val) = names
          /\ DictKeys(ret.val) \cap
               ({a.v : a \in Range(LeftArmClass)} \cup {a.v : a \in Range(RightArmClass)}) = {}
     /\ ret.op = "isaac_to_mujoco_signs" => DictValues(ret.val) \subseteq {1, -1}

C10_Witness ==
  ret.op \in {"isaac_to_mujoco_signs", "default_standing"} /\ Len(ret.val) = 10

\* The lines of a text as str.splitlines gives them: a line break that ends
\* the text starts no further line.
SplitLines(text) ==
  IF Len(text) > 1 /\ text[Len(text)] = EmptyLine
  THEN SubSeq(text, 1, Len(text) - 1)
  ELSE text

\* C8: str() of a node has one line per node of the tree, the indentation of
\* each line proportional to the depth of its node.
C8_OneLinePerNode ==
  ret.op = "str" =>
    LET depths == NodeDepths(ret.cls, 0)
        lines == SplitLines(ret.val)
    IN /\ Len(lines) = Len(depths)
       /\ \E step \in 1..8 :
            \A i \in DOMAIN lines :
              i \in DOMAIN depths => lines[i].indent = step * depths[i]

====
